---- MODULE Spec2Model ----
(***************************************************************************)
(* A model of mvnup (NavyD/mvnup): the version catalog of Manager          *)
(* (src/main.rs), the listing parsers of Site (src/site.rs), the cache    *)
(* decision of Manager::download and the install / uninstall / update     *)
(* commands of Program.                                                    *)
(*                                                                         *)
(* Strings are modelled as sequences of tokens (a number, ".", "-", "/",   *)
(* an operator, a word), so that formatting a Version and parsing the      *)
(* result as a VersionReq are two different functions.                     *)
(***************************************************************************)
EXTENDS Integers, Sequences, FiniteSets, TLC

----------------------------------------------------------------------------
(* Bounds of the model *)

\* number of concurrent tasks sharing one Manager
NumTasks == 2
\* calls made on the catalog by the tasks together
MaxCalls == 3
\* rows of a generated listing page
MaxRows == 2

\* commands run one after the other
MaxCommands == 2

\* things that go wrong during one command
MaxFaults == 1

\* versions of one batch fetch of binaries
MaxBatch == 5

----------------------------------------------------------------------------
(* semver::Version *)

NumTok == {"0", "1", "2", "3", "4", "5", "6", "8", "9"}

NumVal(t) ==
    CASE t = "0" -> 0 [] t = "1" -> 1 [] t = "2" -> 2 [] t = "3" -> 3
      [] t = "4" -> 4 [] t = "5" -> 5 [] t = "6" -> 6 [] t = "8" -> 8
      [] t = "9" -> 9

NumStr(n) == CHOOSE t \in NumTok : NumVal(t) = n

\* pre-release identifiers of the listings; "" is a release
PreTok == {"alpha-1", "beta-1"}

\* Prerelease::cmp: the empty pre-release is greater than any other,
\* identifiers compare in ASCII order ("alpha-1" < "beta-1")
PreRank(p) == CASE p = "alpha-1" -> 0 [] p = "beta-1" -> 1 [] p = "" -> 2

Ver(ma, mi, pa) == [major |-> ma, minor |-> mi, patch |-> pa, pre |-> ""]

VerPre(ma, mi, pa, p) == [major |-> ma, minor |-> mi, patch |-> pa, pre |-> p]

\* Ord for Version: major, minor, patch, then pre-release
VersionLess(a, b) ==
    \/ a.major < b.major
    \/ a.major = b.major /\ a.minor < b.minor
    \/ a.major = b.major /\ a.minor = b.minor /\ a.patch < b.patch
    \/ a.major = b.major /\ a.minor = b.minor /\ a.patch = b.patch
         /\ PreRank(a.pre) < PreRank(b.pre)

\* Display for Version
VersionToString(v) ==
    <<NumStr(v.major), ".", NumStr(v.minor), ".", NumStr(v.patch)>>
        \o (IF v.pre = "" THEN <<>> ELSE <<"-", v.pre>>)

\* str::trim on a token string
RECURSIVE TrimLeft(_)
TrimLeft(s) == IF s # <<>> /\ Head(s) = " " THEN TrimLeft(Tail(s)) ELSE s

RECURSIVE TrimRight(_)
TrimRight(s) ==
    IF s # <<>> /\ s[Len(s)] = " " THEN TrimRight(SubSeq(s, 1, Len(s) - 1)) ELSE s

Trim(s) == TrimRight(TrimLeft(s))

IsSlash(t) == t = "/"

\* str::replace("/", "")
StripSlash(s) == SelectSeq(s, LAMBDA t : ~IsSlash(t))

\* a parser that accepts major.minor.patch alone
IsReleaseString(s) ==
    /\ Len(s) = 5
    /\ s[1] \in NumTok /\ s[2] = "." /\ s[3] \in NumTok /\ s[4] = "."
    /\ s[5] \in NumTok

\* str::parse::<Version>: major.minor.patch with an optional -pre
IsVersionString(s) ==
    /\ Len(s) \in {5, 7}
    /\ s[1] \in NumTok /\ s[2] = "." /\ s[3] \in NumTok /\ s[4] = "."
    /\ s[5] \in NumTok
    /\ Len(s) = 7 => (s[6] = "-" /\ s[7] \in PreTok)

ParseVersion(s) ==
    [major |-> NumVal(s[1]), minor |-> NumVal(s[3]), patch |-> NumVal(s[5]),
     pre |-> IF Len(s) = 7 THEN s[7] ELSE ""]

----------------------------------------------------------------------------
(* semver::VersionReq: one comparator *)

OpTok == {"=", ">", ">=", "<", "<=", "~", "^"}

\* a missing minor or patch of a partial version
None == -1

\* str::parse::<VersionReq>: an optional operator, then major[.minor[.patch[-pre]]];
\* without an operator the comparator is a caret requirement
ReqBody(s) == IF s # <<>> /\ Head(s) \in OpTok THEN Tail(s) ELSE s

IsReqString(s) ==
    LET b == ReqBody(s) IN
    /\ Len(b) \in {1, 3, 5, 7}
    /\ b[1] \in NumTok
    /\ Len(b) >= 3 => (b[2] = "." /\ b[3] \in NumTok)
    /\ Len(b) >= 5 => (b[4] = "." /\ b[5] \in NumTok)
    /\ Len(b) = 7 => (b[6] = "-" /\ b[7] \in PreTok)

ExactOp == "="

\* a comparator written without an operator is a caret requirement
DefaultOp == "^"

ParseReq(s) ==
    LET b == ReqBody(s) IN
    [op |-> IF Head(s) \in OpTok THEN Head(s) ELSE DefaultOp,
     major |-> NumVal(b[1]),
     minor |-> IF Len(b) >= 3 THEN NumVal(b[3]) ELSE None,
     patch |-> IF Len(b) >= 5 THEN NumVal(b[5]) ELSE None,
     pre |-> IF Len(b) = 7 THEN b[7] ELSE ""]

matches_exact(c, v) ==
    /\ v.major = c.major
    /\ c.minor # None => v.minor = c.minor
    /\ c.patch # None => v.patch = c.patch
    /\ v.pre = c.pre

matches_greater(c, v) ==
    IF v.major # c.major THEN v.major > c.major
    ELSE IF c.minor = None THEN FALSE
    ELSE IF v.minor # c.minor THEN v.minor > c.minor
    ELSE IF c.patch = None THEN FALSE
    ELSE IF v.patch # c.patch THEN v.patch > c.patch
    ELSE PreRank(v.pre) > PreRank(c.pre)

matches_less(c, v) ==
    IF v.major # c.major THEN v.major < c.major
    ELSE IF c.minor = None THEN FALSE
    ELSE IF v.minor # c.minor THEN v.minor < c.minor
    ELSE IF c.patch = None THEN FALSE
    ELSE IF v.patch # c.patch THEN v.patch < c.patch
    ELSE PreRank(v.pre) < PreRank(c.pre)

matches_tilde(c, v) ==
    IF v.major # c.major THEN FALSE
    ELSE IF c.minor # None /\ v.minor # c.minor THEN FALSE
    ELSE IF c.patch # None /\ v.patch # c.patch THEN v.patch > c.patch
    ELSE PreRank(v.pre) >= PreRank(c.pre)

matches_caret(c, v) ==
    IF v.major # c.major THEN FALSE
    ELSE IF c.minor = None THEN TRUE
    ELSE IF c.patch = None
         THEN (IF c.major > 0 THEN v.minor >= c.minor ELSE v.minor = c.minor)
    ELSE IF c.major > 0 /\ v.minor # c.minor THEN v.minor > c.minor
    ELSE IF c.major > 0 /\ v.patch # c.patch THEN v.patch > c.patch
    ELSE IF c.major = 0 /\ c.minor > 0 /\ v.minor # c.minor THEN FALSE
    ELSE IF c.major = 0 /\ c.minor > 0 /\ v.patch # c.patch THEN v.patch > c.patch
    ELSE IF c.major = 0 /\ c.minor = 0
              /\ (v.minor # c.minor \/ v.patch # c.patch) THEN FALSE
    ELSE PreRank(v.pre) >= PreRank(c.pre)

matches_impl(c, v) ==
    CASE c.op = "=" -> matches_exact(c, v)
      [] c.op = ">" -> matches_greater(c, v)
      [] c.op = ">=" -> matches_exact(c, v) \/ matches_greater(c, v)
      [] c.op = "<" -> matches_less(c, v)
      [] c.op = "<=" -> matches_exact(c, v) \/ matches_less(c, v)
      [] c.op = "~" -> matches_tilde(c, v)
      [] c.op = "^" -> matches_caret(c, v)

\* a pre-release version matches only a comparator of the same
\* major.minor.patch that has a pre-release itself
pre_is_compatible(c, v) ==
    c.major = v.major /\ c.minor = v.minor /\ c.patch = v.patch /\ c.pre # ""

\* VersionReq::matches
ReqMatches(c, v) ==
    matches_impl(c, v) /\ (v.pre = "" \/ pre_is_compatible(c, v))

----------------------------------------------------------------------------
(* Directory listing pages and their parsers (src/site.rs) *)

\* one row of a listing: the alt text of its icon and the text of its link
Row(alt, text) == [alt |-> alt, text |-> text]

DirRow(name) == Row("[DIR]", name \o <<"/">>)

\* a selector that takes the link of every row with an icon
IsIconRow(r) == r.alt # "Icon "

\* the selector img[alt='[DIR]']+a
IsDirRow(r) == r.alt = "[DIR]"

\* parse_versions: the link texts of the directory rows, trimmed, slashes
\* removed, parsed as Version; flat_map drops the ones that do not parse
RECURSIVE parse_versions(_)
parse_versions(page) ==
    IF page = <<>> THEN <<>>
    ELSE LET r == Head(page)
             s == StripSlash(Trim(r.text))
         IN  (IF IsDirRow(r) /\ IsVersionString(s) THEN <<ParseVersion(s)>> ELSE <<>>)
                 \o parse_versions(Tail(page))

SortAscending(a, b) == VersionLess(a, b)

\* the comparator of sort_unstable_by(|a, b| b.cmp(a)): a goes before b
SortBefore(a, b) == VersionLess(b, a)

RECURSIVE InsertSorted(_, _)
InsertSorted(v, s) ==
    IF s = <<>> THEN <<v>>
    ELSE IF SortBefore(Head(s), v) THEN <<Head(s)>> \o InsertSorted(v, Tail(s))
    ELSE <<v>> \o s

\* vers.sort_unstable_by(|a, b| b.cmp(a)): equal versions are identical
\* values here, so the result does not depend on the sort being unstable
RECURSIVE SortVersions(_)
SortVersions(s) ==
    IF s = <<>> THEN <<>> ELSE InsertSorted(Head(s), SortVersions(Tail(s)))

----------------------------------------------------------------------------
(* Results *)

Ok(val) == [tag |-> "Ok", val |-> val, err |-> ""]

Err(e) == [tag |-> "Err", val |-> <<>>, err |-> e]

\* no result yet
Pending == [tag |-> "Pending", val |-> <<>>, err |-> ""]

----------------------------------------------------------------------------
(* The version-index pages a mirror may serve *)

HeaderRow == Row("Icon ", <<"Name">>)

ParentRow == Row("[PARENTDIR]", <<"Parent Directory">>)

\* 3.6.3, 3.8.1, 3.8.3, 3.8.4 in the listing's (ascending) order
PageFixture ==
    <<HeaderRow, ParentRow,
      DirRow(VersionToString(Ver(3, 6, 3))), DirRow(VersionToString(Ver(3, 8, 1))),
      DirRow(VersionToString(Ver(3, 8, 3))), DirRow(VersionToString(Ver(3, 8, 4)))>>

\* a listing with no version directory
PageNoVersions == <<HeaderRow, ParentRow, DirRow(<<"plugins">>)>>

\* the versions the generated rows are built from
RowVersions ==
    {Ver(3, 8, 3), Ver(3, 8, 4), VerPre(3, 1, 0, "alpha-1"), Ver(0, 2, 3), Ver(0, 2, 5)}

RowAlphabet ==
    {DirRow(VersionToString(v)) : v \in RowVersions}
        \cup {DirRow(<<"3", ".", "8">>), Row("[   ]", VersionToString(Ver(3, 8, 4)))}

SeqsUpTo(S, n) == UNION {[1..k -> S] : k \in 0..n}

GenPages == SeqsUpTo(RowAlphabet, MaxRows)

\* a listing that names one version directory twice
PageDuplicate ==
    <<ParentRow, DirRow(VersionToString(Ver(3, 8, 3))),
      DirRow(VersionToString(Ver(3, 8, 4))), DirRow(VersionToString(Ver(3, 8, 3)))>>

\* the pages served while several tasks share the catalog
IndexPages == {PageFixture, PageNoVersions, PageDuplicate}

\* the patterns a caller may give: requirements, version strings, a word
Patterns ==
    {<<">=", "3">>, <<"<=", "3", ".", "8", ".", "3">>, <<"<", "3", ".", "8">>,
     <<">", "8">>, <<"=", "3", ".", "8", ".", "3">>, <<"~", "3", ".", "1">>,
     <<"latest">>}
        \cup {VersionToString(v) : v \in RowVersions \cup {Ver(3, 6, 3)}}

----------------------------------------------------------------------------
(* Manager: the version catalog (src/main.rs) *)

VARIABLES
    versions,   \* Manager.versions, the Vec inside Arc<Mutex<..>>
    lock,       \* the task holding the tokio Mutex, 0 when it is free
    pc,         \* where each task is in its call
    call,       \* the call each task is making: [kind, pat]
    budget,     \* the calls that may still be started
    callers,    \* the tasks that make calls
    menu,       \* the calls they may make
    fetched,    \* what Site::fetch_versions returned to the task's call
    vres,       \* what Manager::versions returned to the task's call
    result,     \* what the task's call returned
    requests,   \* GET requests issued on the version index so far
    mirror,     \* the version-index pages the mirror may serve
    javaOk,     \* whether which("java") and java -version succeed
    firstOk,    \* the first Ok return of Manager::versions, and requests then
    populated,  \* the first non-empty Ok return of Manager::versions
    lastOk,     \* the latest Ok return of Manager::versions
    started,    \* the number of calls each task has started
    wasted,     \* fetches so far that failed or found no version
    raced       \* a call was started while another task's call was under way

VARIABLES
    link,       \* executable_dir()/mvn: nothing, a regular file, or a symlink
    homes,      \* the versions whose apache-maven-<version> is in the data dir
    cache,      \* the files of the cache directory
    last        \* the last command run and what it did

programVars == <<link, homes, cache, last>>

VARIABLE
    probe       \* the last call made on a function of Site or Manager alone

siteVars == <<probe>>

catalogVars ==
    <<versions, lock, pc, call, budget, callers, menu, fetched, vres, result, requests,
      mirror, javaOk, firstOk, populated, lastOk, started, wasted,
      raced>>

Tasks == 1..NumTasks

NoCall == [kind |-> "none", pat |-> <<>>]

Calls ==
    {[kind |-> "versions", pat |-> <<>>], [kind |-> "latest_version", pat |-> <<>>]}
        \cup {[kind |-> "match_version", pat |-> p] : p \in Patterns}

\* the calls made while several tasks share the catalog
SharedCalls ==
    {[kind |-> "versions", pat |-> <<>>], [kind |-> "latest_version", pat |-> <<>>],
     [kind |-> "match_version", pat |-> <<">=", "3">>],
     [kind |-> "match_version", pat |-> VersionToString(Ver(3, 8, 3))]}

Unset == [set |-> FALSE, val |-> <<>>, reqs |-> 0]

JavaCheckSkipped(java) == TRUE

\* which("java").and_then(find_java_version) of match_version
JavaCheck(java) == java

CacheHitNever(vers) == FALSE

\* vers.is_empty() is the only sign that the cache is not populated
CacheHit(vers) == vers # <<>>

LockFreeAlways(l) == TRUE

\* self.versions.lock().await: the guard is free
LockFree(l) == l = 0

\* *vers = fetch_versions()?; vers.sort_unstable_by(..): the new cache
SortedCatalog(found) == SortVersions(found)

VersionsReturnNonEmpty(vers) ==
    IF vers = <<>> THEN [tag |-> "Err", val |-> <<>>, err |-> "empty catalog"]
    ELSE [tag |-> "Ok", val |-> vers, err |-> ""]

\* Ok(vers.to_vec()) after the sort
VersionsReturn(vers) == Ok(vers)

RECURSIVE FindLast(_, _)
FindLast(req, vers) ==
    IF vers = <<>> THEN <<>>
    ELSE IF ReqMatches(req, vers[Len(vers)]) THEN <<vers[Len(vers)]>>
    ELSE FindLast(req, SubSeq(vers, 1, Len(vers) - 1))

\* .iter().find(|ver| req.matches(ver))
RECURSIVE FindFirst(_, _)
FindFirst(req, vers) ==
    IF vers = <<>> THEN <<>>
    ELSE IF ReqMatches(req, Head(vers)) THEN <<Head(vers)>>
    ELSE FindFirst(req, Tail(vers))

\* what latest_version makes of the result of versions()
LatestOf(vr) ==
    IF vr.tag = "Err" THEN vr
    ELSE IF vr.val = <<>> THEN Err("")
    ELSE Ok(<<Head(vr.val)>>)

\* what match_version makes of the result of versions()
MatchOf(pat, vr) ==
    IF vr.tag = "Err" THEN vr
    ELSE LET found == FindFirst(ParseReq(pat), vr.val)
         IN  IF found = <<>> THEN Err("not matched version") ELSE Ok(found)

\* the value a call returns once versions() has returned vr
Finish(c, vr) ==
    CASE c.kind = "versions" -> vr
      [] c.kind = "latest_version" -> LatestOf(vr)
      [] c.kind = "match_version" -> MatchOf(c.pat, vr)

\* the history of Ok returns of Manager::versions
NoteReturn(vr, reqs) ==
    /\ firstOk' = IF vr.tag = "Ok" /\ ~firstOk.set
                  THEN [set |-> TRUE, val |-> vr.val, reqs |-> reqs] ELSE firstOk
    /\ populated' = IF vr.tag = "Ok" /\ vr.val # <<>> /\ ~populated.set
                    THEN [set |-> TRUE, val |-> vr.val, reqs |-> reqs]
                    ELSE populated
    /\ lastOk' = IF vr.tag = "Ok"
                 THEN [set |-> TRUE, val |-> vr.val, reqs |-> reqs] ELSE lastOk

\* A task starts versions(), latest_version() or match_version(pat).
\* match_version looks for java and parses the pattern before it touches
\* the catalog (main.rs 408-414); the others go straight to versions().
StartCall(t) ==
    /\ pc[t] \in {"idle", "done"}
    /\ t \in callers
    /\ budget > 0
    /\ \E c \in menu :
        /\ call' = [call EXCEPT ![t] = c]
        /\ budget' = budget - 1
        /\ started' = [started EXCEPT ![t] = @ + 1]
        /\ raced' = (raced \/ \E u \in Tasks \ {t} : pc[u] \in {"lock", "fetch"})
        /\ fetched' = [fetched EXCEPT ![t] = Pending]
        /\ vres' = [vres EXCEPT ![t] = Pending]
        /\ IF c.kind = "match_version" /\ ~JavaCheck(javaOk)
           THEN /\ result' = [result EXCEPT ![t] = Err("failed to find java version")]
                /\ pc' = [pc EXCEPT ![t] = "done"]
           ELSE IF c.kind = "match_version" /\ ~IsReqString(c.pat)
           THEN /\ result' = [result EXCEPT ![t] = Err("unexpected character")]
                /\ pc' = [pc EXCEPT ![t] = "done"]
           ELSE /\ result' = [result EXCEPT ![t] = Pending]
                /\ pc' = [pc EXCEPT ![t] = "lock"]
    /\ UNCHANGED <<programVars, siteVars>>
    /\ UNCHANGED <<versions, lock, callers, menu, requests, mirror, javaOk,
                   firstOk, populated, lastOk, wasted>>

\* versions(): the task gets the mutex and finds the cache populated; it
\* returns a copy and the guard is dropped (main.rs 424-427).
VersionsCached(t) ==
    /\ pc[t] = "lock"
    /\ LockFree(lock)
    /\ CacheHit(versions)
    /\ LET vr == Ok(versions) IN
        /\ vres' = [vres EXCEPT ![t] = vr]
        /\ result' = [result EXCEPT ![t] = Finish(call[t], vr)]
        /\ NoteReturn(vr, requests)
    /\ pc' = [pc EXCEPT ![t] = "done"]
    /\ UNCHANGED <<programVars, siteVars>>
    /\ UNCHANGED <<versions, lock, call, budget, callers, menu, fetched, requests,
                   mirror, javaOk, started, wasted, raced>>

\* versions(): the task gets the mutex, finds the cache empty and sends the
\* GET of Site::fetch_versions; it keeps the guard across the await
\* (main.rs 424-428, site.rs 178-182).
VersionsRequest(t) ==
    /\ pc[t] = "lock"
    /\ LockFree(lock)
    /\ ~CacheHit(versions)
    /\ lock' = t
    /\ requests' = requests + 1
    /\ pc' = [pc EXCEPT ![t] = "fetch"]
    /\ UNCHANGED <<programVars, siteVars>>
    /\ UNCHANGED <<versions, call, budget, callers, menu, fetched, vres, result,
                   mirror, javaOk, firstOk, populated, lastOk, started, wasted,
                   raced>>

\* the request fails: `?` returns the error, the cache is left as it was and
\* the guard is dropped
FetchFails(t) ==
    /\ pc[t] = "fetch"
    /\ LET vr == Err("transport") IN
        /\ fetched' = [fetched EXCEPT ![t] = vr]
        /\ vres' = [vres EXCEPT ![t] = vr]
        /\ result' = [result EXCEPT ![t] = Finish(call[t], vr)]
        /\ NoteReturn(vr, requests)
    /\ lock' = IF lock = t THEN 0 ELSE lock
    /\ pc' = [pc EXCEPT ![t] = "done"]
    /\ wasted' = wasted + 1
    /\ UNCHANGED <<programVars, siteVars>>
    /\ UNCHANGED <<versions, call, budget, callers, menu, requests, mirror, javaOk,
                   started, raced>>

\* the page arrives: it is parsed, stored in the cache, sorted newest first
\* and a copy is returned; the guard is dropped (main.rs 428-430)
FetchReturns(t) ==
    /\ pc[t] = "fetch"
    /\ \E page \in mirror :
        LET found == parse_versions(page)
            vers == SortedCatalog(found)
            vr == VersionsReturn(vers)
        IN  /\ fetched' = [fetched EXCEPT ![t] = Ok(found)]
            /\ versions' = vers
            /\ vres' = [vres EXCEPT ![t] = vr]
            /\ result' = [result EXCEPT ![t] = Finish(call[t], vr)]
            /\ NoteReturn(vr, requests)
            /\ wasted' = IF found = <<>> THEN wasted + 1 ELSE wasted
    /\ lock' = IF lock = t THEN 0 ELSE lock
    /\ pc' = [pc EXCEPT ![t] = "done"]
    /\ UNCHANGED <<programVars, siteVars>>
    /\ UNCHANGED <<call, budget, callers, menu, requests, mirror, javaOk, started,
                   raced>>

CatalogNext ==
    \E t \in Tasks :
        \/ StartCall(t)
        \/ VersionsCached(t)
        \/ VersionsRequest(t)
        \/ FetchFails(t)
        \/ FetchReturns(t)

NoLink == [kind |-> "none", home |-> <<>>]

NoDownload ==
    [reached |-> FALSE, name |-> <<>>, size |-> 0, had |-> {}, gets |-> 0,
     res |-> Pending, body |-> "none"]

\* no call has been made
NoProbe == [op |-> "none", inp |-> <<>>, out |-> Pending]

NoCommand ==
    [n |-> 0, cmd |-> "none", pat |-> <<>>, res |-> Pending, installed |-> <<>>,
     target |-> <<>>, uninstall |-> Pending, install |-> Pending,
     dl |-> NoDownload, same |-> TRUE]

\* no command has run: nothing is installed, the cache directory is empty
ProgramStart ==
    /\ link = NoLink
    /\ homes = {}
    /\ cache = {}
    /\ last = NoCommand
    /\ probe = NoProbe

\* Manager::new: an empty cache, a free mutex
CatalogStart ==
    /\ versions = <<>>
    /\ lock = 0
    /\ pc = [t \in Tasks |-> "idle"]
    /\ call = [t \in Tasks |-> NoCall]
    /\ fetched = [t \in Tasks |-> Pending]
    /\ vres = [t \in Tasks |-> Pending]
    /\ result = [t \in Tasks |-> Pending]
    /\ requests = 0
    /\ javaOk \in BOOLEAN
    /\ firstOk = Unset
    /\ populated = Unset
    /\ lastOk = Unset
    /\ started = [t \in Tasks |-> 0]
    /\ wasted = 0
    /\ raced = FALSE

\* several tasks share one Manager; the mirror may serve any of IndexPages
InitCatalog ==
    /\ ProgramStart
    /\ CatalogStart
    /\ budget = MaxCalls
    /\ callers = Tasks
    /\ menu = SharedCalls
    /\ mirror = IndexPages

\* one caller on a mirror that serves one page: a first call, which
\* fetches, and a second one
InitResolve ==
    /\ ProgramStart
    /\ CatalogStart
    /\ budget = 2
    /\ callers = {1}
    /\ menu = Calls
    /\ mirror \in {{p} : p \in GenPages \cup IndexPages}

----------------------------------------------------------------------------
(* Site::fetch_bins and Manager::download (src/site.rs, src/main.rs) *)

IsBracketRow(r) == r.alt \in {"[   ]", "[TXT]", "[DIR]", "[PARENTDIR]"}

\* the selector img[alt*='[  ']+a: the icon of a generic file
IsFileRow(r) == r.alt = "[   ]"

\* parse_bin_names: the trimmed link texts of the generic-file rows
RECURSIVE parse_bin_names(_)
parse_bin_names(page) ==
    IF page = <<>> THEN <<>>
    ELSE (IF IsFileRow(Head(page)) THEN <<Trim(Head(page).text)>> ELSE <<>>)
            \o parse_bin_names(Tail(page))

ArtifactName(v, ext) == <<"apache-maven-">> \o VersionToString(v) \o <<"-bin", ext>>

\* str::ends_with on the last token of a file name
EndsWith(name, suffix) == name # <<>> /\ name[Len(name)] = suffix

\* the binaries listing of a version: a .tar.gz, a .zip and their sidecars
BinListing(v) ==
    <<HeaderRow, ParentRow,
      Row("[   ]", ArtifactName(v, ".tar.gz")),
      Row("[TXT]", ArtifactName(v, ".tar.gz") \o <<".asc">>),
      Row("[TXT]", ArtifactName(v, ".tar.gz") \o <<".sha512">>),
      Row("[   ]", ArtifactName(v, ".zip")),
      Row("[TXT]", ArtifactName(v, ".zip") \o <<".asc">>),
      Row("[TXT]", ArtifactName(v, ".zip") \o <<".sha512">>)>>

\* Content-Length of an artifact, in blocks
ArtifactSize(name) == IF EndsWith(name, ".tar.gz") THEN 2 ELSE 3

\* the BinFile records of the names whose metadata requests succeed, in the
\* order of the listing; an empty result is an error (spec 4.5, listBinaries)
RECURSIVE AssembleBins(_, _)
AssembleBins(names, metaOk) ==
    IF names = <<>> THEN <<>>
    ELSE (IF Head(names) \in metaOk
          THEN <<[filename |-> Head(names), size |-> ArtifactSize(Head(names))]>>
          ELSE <<>>) \o AssembleBins(Tail(names), metaOk)

ListBinaries(names, metaOk) ==
    LET bins == AssembleBins(names, metaOk) IN
    IF bins = <<>> THEN Err("no binaries") ELSE Ok(bins)

\* fetch_bins without the check of the names
FetchBinsUnchecked(resp, metaOk) ==
    IF ~resp.ok THEN Err("transport")
    ELSE ListBinaries(parse_bin_names(resp.page), metaOk)

\* Site::fetch_bins: the GET of the listing, parse_bin_names, the check that
\* some name was found (site.rs 185-200), then the assembly of the records
fetch_bins(resp, metaOk) ==
    IF ~resp.ok THEN Err("transport")
    ELSE LET names == parse_bin_names(resp.page) IN
         IF names = <<>> THEN Err("not found bin names")
         ELSE ListBinaries(names, metaOk)

TarSuffixGzOnly == {".tar.gz"}

\* the suffixes tar is used for (main.rs 378-380)
TarSuffix == {".tar.gz", ".tar.bz2", ".tar.xz"}

\* Manager::choose_bin: the first bin of the list that ends with a tar
\* suffix, when tar is on the PATH
RECURSIVE choose_bin(_, _)
choose_bin(bins, hasTar) ==
    IF bins = <<>> THEN Err("not found a bin")
    ELSE IF hasTar /\ \E sfx \in TarSuffix : EndsWith(Head(bins).filename, sfx)
    THEN Ok(<<Head(bins)>>)
    ELSE choose_bin(Tail(bins), hasTar)

\* a file of the cache directory: its name, its length in blocks, and
\* whether its content is the whole artifact of that name
File(name, size, good) == [name |-> name, size |-> size, good |-> good]

\* the files of that name in the cache directory (none or one)
CacheFile(cch, name) == {f \in cch : f.name = name}

\* Path::is_file
IsFile(cch, name) == CacheFile(cch, name) # {}

WriteFile(cch, f) == (cch \ CacheFile(cch, f.name)) \cup {f}

MatchDigestsNever(file, bin) == FALSE

MatchDigestsAlways(file, bin) == TRUE

\* util::match_digests: the length of the file is the recorded size
match_digests(file, bin) == file.size = bin.size

\* the ways the GET of an artifact can go: the request is refused, the
\* stream breaks after some blocks, the whole artifact arrives, or the
\* server answers with a body that is not the artifact (the status of the
\* response is not looked at)
BodyOutcomes == {"refused", "broken", "complete", "other"}

\* BinFile::download: File::create truncates the file, then the body is
\* streamed into it; the result and the file left behind
BinFileDownload(bin, body) ==
    CASE body = "refused" ->
            [res |-> Err("transport"), file |-> File(bin.filename, 0, FALSE)]
      [] body = "broken" ->
            [res |-> Err("transport"), file |-> File(bin.filename, bin.size - 1, FALSE)]
      [] body = "complete" ->
            [res |-> Ok(<<bin.filename>>), file |-> File(bin.filename, bin.size, TRUE)]
      [] body = "other" ->
            [res |-> Ok(<<bin.filename>>), file |-> File(bin.filename, 1, FALSE)]

\* a download that did not get as far as the cache directory
NoTransfer(res, cch) ==
    [res |-> res, cache |-> cch, reached |-> FALSE, name |-> <<>>, size |-> 0,
     had |-> {}, gets |-> 0]

\* the one element of a singleton: The({e(x) : x \in {v}}) is e(v), with v
\* computed once (a let binding of the source)
The(S) == CHOOSE x \in S : TRUE

\* the cached file if it is there with the recorded size, else
\* BinFile::download (main.rs 393-402)
CacheOrDownload(cch, bin, body) ==
    LET had == CacheFile(cch, bin.filename)
        hit == IsFile(cch, bin.filename) /\ \A f \in had : match_digests(f, bin)
        got == BinFileDownload(bin, body)
    IN  [res |-> IF hit THEN Ok(<<bin.filename>>) ELSE got.res,
         cache |-> IF hit THEN cch ELSE WriteFile(cch, got.file),
         reached |-> TRUE, name |-> bin.filename, size |-> bin.size,
         had |-> had, gets |-> IF hit THEN 0 ELSE 1]

\* Manager::download: fetch_bins, choose_bin, then the cache-or-download
\* decision (main.rs 390-403).
\* inp: the answers of the mirror and of the host to this call.
ManagerDownload(cch, inp) ==
    The({IF bins.tag = "Err" THEN NoTransfer(bins, cch)
         ELSE The({IF sel.tag = "Err" THEN NoTransfer(sel, cch)
                   ELSE CacheOrDownload(cch, sel.val[1], inp.body)
                   : sel \in {choose_bin(bins.val, inp.hasTar)}})
         : bins \in {fetch_bins(inp.bins, inp.metaOk)}})

----------------------------------------------------------------------------
(* Program: install, uninstall, update (src/main.rs) *)

FileLink == [kind |-> "file", home |-> <<>>]

LinkTo(v) == [kind |-> "link", home |-> <<v>>]

\* the file system as the commands see it
Disk(l, h, c) == [link |-> l, homes |-> h, cache |-> c]

\* Path::exists on executable_dir()/mvn: a file, or a link whose target
\* exists
LinkExists(l, hs) == l.kind = "file" \/ (l.kind = "link" /\ l.home[1] \in hs)

\* which("mvn"): the mvn of the executable dir when that dir is on the PATH
\* and its mvn exists, else another mvn of the PATH, else nothing
Which(st, inp) ==
    IF inp.onPath /\ LinkExists(st.link, st.homes) THEN "exe"
    ELSE IF inp.other THEN "other"
    ELSE "none"

\* util::parse_mvn_version: the regex Apache Maven\s*((\d+\.?)*) takes the
\* digits and dots of the reported version and stops at a pre-release tag
ReportedVersion(v) == Ver(v.major, v.minor, v.patch)

HomeName(v) == <<"apache-maven-">> \o VersionToString(v)

\* the version of the distribution inside an artifact of that name
VersionOfArtifact(name) == ParseVersion(SubSeq(name, 2, Len(name) - 2))

Contains(str, sub) ==
    \E i \in 1..(Len(str) - Len(sub) + 1) : SubSeq(str, i, i + Len(sub) - 1) = sub

\* the order in which glob yields the homes of the data dir: by name
PathBefore(a, b) ==
    \/ VersionLess(ReportedVersion(a), ReportedVersion(b))
    \/ /\ ReportedVersion(a) = ReportedVersion(b)
       /\ \/ a.pre = "" /\ b.pre # ""
          \/ a.pre # "" /\ b.pre # "" /\ PreRank(a.pre) < PreRank(b.pre)

\* glob("{data_dir}/**/mvn").next()
FirstHome(hs) == CHOOSE h \in hs : \A g \in hs \ {h} : PathBefore(h, g)

\* the answer of the mirror for the binaries of v
BinResponse(kind, v) ==
    CASE kind = "err" -> [ok |-> FALSE, page |-> <<>>]
      [] kind = "listing" -> [ok |-> TRUE, page |-> BinListing(v)]
      [] kind = "empty" -> [ok |-> TRUE, page |-> <<HeaderRow, ParentRow>>]

\* the answers of the mirror for the version index
IndexAnswers ==
    {[ok |-> FALSE, page |-> <<>>], [ok |-> TRUE, page |-> PageFixture],
     [ok |-> TRUE, page |-> PageNoVersions]}

IndexCatalog == [idx \in IndexAnswers |-> SortedCatalog(parse_versions(idx.page))]

\* Manager::versions within one run of the program: the cache of the
\* Manager, or the answer of the mirror to the one request
VersionsCall(vers, idx) ==
    IF CacheHit(vers) THEN [vr |-> Ok(vers), vers |-> vers]
    ELSE IF ~idx.ok THEN [vr |-> Err("transport"), vers |-> vers]
    ELSE LET sorted == IndexCatalog[idx]
         IN  [vr |-> VersionsReturn(sorted), vers |-> sorted]

\* the version an optional pattern resolves to (main.rs 143-147, 237-241),
\* and the cache of the Manager afterwards
ResolveRun(patOpt, vers, inp) ==
    IF patOpt = <<>>
    THEN LET c == VersionsCall(vers, inp.idx)
         IN  [res |-> LatestOf(c.vr), vers |-> c.vers]
    ELSE IF ~JavaCheck(inp.java)
    THEN [res |-> Err("failed to find java version"), vers |-> vers]
    ELSE IF ~IsReqString(patOpt[1])
    THEN [res |-> Err("unexpected character"), vers |-> vers]
    ELSE LET c == VersionsCall(vers, inp.idx)
         IN  [res |-> MatchOf(patOpt[1], c.vr), vers |-> c.vers]

DownloadNote(d, body) ==
    [reached |-> d.reached, name |-> d.name, size |-> d.size, had |-> d.had,
     gets |-> d.gets, res |-> d.res, body |-> IF d.gets = 0 THEN "none" ELSE body]

\* Program::uninstall (main.rs 168-216)
UninstallRun(st, inp) ==
    LET w == Which(st, inp) IN
    IF w = "none" THEN [res |-> Err("not found maven path"), st |-> st]
    ELSE IF w = "other" THEN [res |-> Err("inconsistent bin path"), st |-> st]
    ELSE IF st.link.kind # "link" THEN [res |-> Err("is not a link"), st |-> st]
    ELSE IF ~inp.mvnRuns THEN [res |-> Err("mvn --version failed"), st |-> st]
    ELSE LET ver == ReportedVersion(st.link.home[1])
             found == {h \in st.homes : Contains(HomeName(h), VersionToString(ver))}
         IN  IF found = {}
             THEN [res |-> Err("not found mvn bin in data dir"), st |-> st]
             ELSE IF Cardinality(found) >= 2
             THEN [res |-> Err("found multiple bin paths"), st |-> st]
             ELSE IF inp.rm = "home"
             THEN [res |-> Err("remove_dir_all failed"), st |-> st]
             ELSE IF inp.rm = "link"
             THEN [res |-> Err("remove_file failed"),
                   st |-> Disk(st.link, st.homes \ found, st.cache)]
             ELSE [res |-> Ok(<<>>),
                   st |-> Disk(NoLink, st.homes \ found, st.cache)]

\* an install that ends with res, the file system being st
InstallEnds(st, res, target, dl) == [res |-> res, st |-> st, target |-> target, dl |-> dl]

\* what the mirror and the host answer to the download of v
DownloadInput(v, inp) ==
    [bins |-> BinResponse(inp.bins, v),
     metaOk |-> {ArtifactName(v, ext) : ext \in inp.metaOk},
     hasTar |-> inp.hasTar, body |-> inp.body]

\* a link step that links whatever is at the path of the link
LinkAlways(l, hs) == LinkTo(FirstHome(hs))

\* the link step of install (main.rs 254-267): the link to the first mvn of
\* the data dir is made only when nothing exists at its path; a link whose
\* target is gone makes symlink fail
LinkAfter(l, hs) == IF LinkExists(l, hs) THEN l ELSE LinkTo(FirstHome(hs))

\* Program::install after the download d of v: extract, find the mvn of
\* the data dir, link it (main.rs 245-273)
ExtractAndLink(st, v, d, inp) ==
    LET now == Disk(st.link, st.homes, d.cache)
        note == DownloadNote(d, inp.body)
        hs == st.homes \cup {VersionOfArtifact(d.name)}
    IN
    IF d.res.tag = "Err" THEN InstallEnds(now, d.res, <<v>>, note)
    ELSE IF ~inp.hasTar THEN InstallEnds(now, Err("unsupported"), <<v>>, note)
    ELSE IF \E f \in CacheFile(d.cache, d.name) : ~f.good
    THEN InstallEnds(now, Err("failed to extract by tar"), <<v>>, note)
    ELSE IF ~LinkExists(st.link, hs) /\ st.link.kind # "none"
    THEN InstallEnds(Disk(st.link, hs, d.cache), Err("File exists"), <<v>>, note)
    ELSE InstallEnds(Disk(LinkAfter(st.link, hs), hs, d.cache), Ok(<<>>), <<v>>, note)

\* Program::install (main.rs 218-274); vers is the cache of the Manager
InstallRun(st, patOpt, vers, inp) ==
    IF Which(st, inp) # "none"
    THEN InstallEnds(st, Err("found installed version"), <<>>, NoDownload)
    ELSE The({IF r.res.tag = "Err" THEN InstallEnds(st, r.res, <<>>, NoDownload)
              ELSE The({ExtractAndLink(st, r.res.val[1], d, inp)
                        : d \in {ManagerDownload(st.cache,
                                                 DownloadInput(r.res.val[1], inp))}})
              : r \in {ResolveRun(patOpt, vers, inp)}})

UpdateAllowedOrEqual(installed, target) == ~VersionLess(target, installed)

\* installed_ver.cmp(&ver) is Less (main.rs 149-161)
UpdateAllowed(installed, target) == VersionLess(installed, target)

\* an update that ends with res before uninstall
UpdateEnds(st, res, installed, target) ==
    [res |-> res, st |-> st, installed |-> installed, target |-> target,
     uninstall |-> Pending, install |-> Pending, dl |-> NoDownload]

\* an update that puts the file system back when its install step fails
UpdateRestores(st, u, i, installed, target) ==
    [res |-> i.res, st |-> IF i.res.tag = "Err" THEN st ELSE i.st,
     installed |-> <<installed>>, target |-> <<target>>, uninstall |-> u.res,
     install |-> i.res, dl |-> i.dl]

\* the end of an update whose uninstall step u succeeded and whose install
\* step returned i (main.rs 163-165): the result of install is the result
\* of update, and the file system stays as install left it; st, the file
\* system before the uninstall step, is not put back
UpdateReturns(st, u, i, installed, target) ==
    [res |-> i.res, st |-> i.st, installed |-> <<installed>>,
     target |-> <<target>>, uninstall |-> u.res, install |-> i.res, dl |-> i.dl]

\* Program::update once the target is resolved: the comparison, uninstall,
\* install of the target's string (main.rs 149-165)
UpdateTo(st, installed, target, vers, inp) ==
    IF ~UpdateAllowed(installed, target)
    THEN UpdateEnds(st, IF installed = target THEN Err("same version")
                        ELSE Err("less version"), <<installed>>, <<target>>)
    ELSE The({IF u.res.tag = "Err"
              THEN [UpdateEnds(st, u.res, <<installed>>, <<target>>)
                        EXCEPT !.uninstall = u.res]
              ELSE The({UpdateReturns(st, u, i, installed, target)
                        : i \in {InstallRun(u.st, <<VersionToString(target)>>,
                                            vers, inp)}})
              : u \in {UninstallRun(st, inp)}})

\* Program::update (main.rs 132-166)
UpdateRun(st, patOpt, inp) ==
    IF Which(st, inp) = "none"
    THEN UpdateEnds(st, Err("cannot find binary path"), <<>>, <<>>)
    ELSE IF Which(st, inp) = "other" \/ st.link.kind # "link"
    THEN UpdateEnds(st, Err("not found mvn installed path"), <<>>, <<>>)
    ELSE IF ~inp.mvnRuns THEN UpdateEnds(st, Err("mvn --version failed"), <<>>, <<>>)
    ELSE The({IF r.res.tag = "Err"
              THEN UpdateEnds(st, r.res, <<ReportedVersion(st.link.home[1])>>, <<>>)
              ELSE UpdateTo(st, ReportedVersion(st.link.home[1]), r.res.val[1],
                            r.vers, inp)
              : r \in {ResolveRun(patOpt, <<>>, inp)}})

\* the patterns given on the command line: none, or one of these
ProgramPatterns ==
    {<<>>, <<VersionToString(Ver(3, 8, 3))>>, <<<<"=", "3", ".", "8", ".", "3">>>>,
     <<<<"<", "3", ".", "8">>>>}

\* what the host and the mirror answer during one run of the program
Inputs ==
    [java : BOOLEAN, hasTar : BOOLEAN, mvnRuns : BOOLEAN, other : BOOLEAN,
     onPath : BOOLEAN, rm : {"ok", "home", "link"}, idx : IndexAnswers, bins : {"err", "listing", "empty"},
     metaOk : {{".tar.gz", ".zip"}, {".zip"}, {}}, body : BodyOutcomes]

\* the host and the mirror at their best
Healthy ==
    [java |-> TRUE, hasTar |-> TRUE, mvnRuns |-> TRUE, other |-> FALSE,
     onPath |-> TRUE, rm |-> "ok", idx |-> [ok |-> TRUE, page |-> PageFixture], bins |-> "listing",
     metaOk |-> {".tar.gz", ".zip"}, body |-> "complete"]

\* in how many ways an input is not Healthy
Faults(inp) == Cardinality({f \in DOMAIN Healthy : inp[f] # Healthy[f]})

\* the inputs of one run: at most MaxFaults things go wrong in it
RunInputs == {inp \in Inputs : Faults(inp) <= MaxFaults}

\* install runs no mvn and removes nothing
InstallInputs == {inp \in RunInputs : inp.mvnRuns /\ inp.rm = "ok"}

\* uninstall asks the PATH, runs mvn and removes; it makes no request
UninstallInputs ==
    {inp \in RunInputs :
        \A f \in {"java", "hasTar", "idx", "bins", "metaOk", "body"} :
            inp[f] = Healthy[f]}

\* mvnup install [pattern]
Install(p, inp) ==
    /\ last.n < MaxCommands
    /\ \E st \in {Disk(link, homes, cache)} : \E r \in {InstallRun(st, p, <<>>, inp)} :
        /\ link' = r.st.link
        /\ homes' = r.st.homes
        /\ cache' = r.st.cache
        /\ last' = [n |-> last.n + 1, cmd |-> "install", pat |-> p, res |-> r.res,
                    installed |-> <<>>, target |-> r.target, uninstall |-> Pending,
                    install |-> r.res, dl |-> r.dl, same |-> r.st = st]
        /\ UNCHANGED <<catalogVars, siteVars>>

\* mvnup uninstall
Uninstall(inp) ==
    /\ last.n < MaxCommands
    /\ \E st \in {Disk(link, homes, cache)} : \E r \in {UninstallRun(st, inp)} :
        /\ link' = r.st.link
        /\ homes' = r.st.homes
        /\ cache' = r.st.cache
        /\ last' = [n |-> last.n + 1, cmd |-> "uninstall", pat |-> <<>>,
                    res |-> r.res, installed |-> <<>>, target |-> <<>>,
                    uninstall |-> r.res, install |-> Pending, dl |-> NoDownload,
                    same |-> r.st = st]
        /\ UNCHANGED <<catalogVars, siteVars>>

\* mvnup update [pattern]
Update(p, inp) ==
    /\ last.n < MaxCommands
    /\ \E st \in {Disk(link, homes, cache)} : \E r \in {UpdateRun(st, p, inp)} :
        /\ link' = r.st.link
        /\ homes' = r.st.homes
        /\ cache' = r.st.cache
        /\ last' = [n |-> last.n + 1, cmd |-> "update", pat |-> p, res |-> r.res,
                    installed |-> r.installed, target |-> r.target,
                    uninstall |-> r.uninstall, install |-> r.install, dl |-> r.dl,
                    same |-> r.st = st]
        /\ UNCHANGED <<catalogVars, siteVars>>

ProgramNext ==
    \/ \E p \in ProgramPatterns, inp \in InstallInputs : Install(p, inp)
    \/ \E inp \in UninstallInputs : Uninstall(inp)
    \/ \E p \in ProgramPatterns, inp \in RunInputs : Update(p, inp)

\* the commands run one after the other, each in a process of its own with
\* a Manager of its own; the executable dir may hold a foreign mvn
Init ==
    /\ link \in {NoLink, FileLink}
    /\ homes = {}
    /\ cache = {}
    /\ last = NoCommand
    /\ probe = NoProbe
    /\ CatalogStart
    /\ javaOk = TRUE
    /\ budget = 0
    /\ callers = {}
    /\ menu = {}
    /\ mirror = {}

----------------------------------------------------------------------------
(* Site and Manager: the functions of a listing alone *)

\* a call of op on inp returned out; the functions keep no state, so one
\* call is looked at
Probe(op, inp, out) == [op |-> op, inp |-> inp, out |-> out]

\* the BinFile of an artifact of 3.8.4
BinOf(ext) ==
    [filename |-> ArtifactName(Ver(3, 8, 4), ext),
     size |-> ArtifactSize(ArtifactName(Ver(3, 8, 4), ext))]

\* the extensions of the artifacts a listing may hold
ArtifactExts == {".tar.gz", ".tar.bz2", ".tar.xz", ".zip"}

\* the lists of BinFile records choose_bin may be given
BinLists == SeqsUpTo({BinOf(ext) : ext \in ArtifactExts}, MaxRows)

\* Manager::choose_bin on a list of bins, tar being on the PATH or not
ChooseBin ==
    /\ probe = NoProbe
    /\ \E bins \in BinLists, hasTar \in BOOLEAN :
          probe' = Probe("choose_bin", [bins |-> bins, hasTar |-> hasTar],
                         choose_bin(bins, hasTar))
    /\ UNCHANGED <<catalogVars, programVars>>

\* the rows a generated binaries listing is built from: artifacts, a
\* sidecar, a directory, the parent directory
BinRowAlphabet ==
    {Row("[   ]", ArtifactName(Ver(3, 8, 4), ext)) : ext \in {".tar.gz", ".zip"}}
        \cup {Row("[TXT]", ArtifactName(Ver(3, 8, 4), ".tar.gz") \o <<".sha512">>),
              Row("[   ]", <<" ">> \o ArtifactName(Ver(3, 8, 3), ".tar.xz") \o <<" ">>),
              DirRow(<<"old">>), ParentRow}

\* the binaries listings a mirror may serve
BinListings == SeqsUpTo(BinRowAlphabet, MaxRows) \cup {BinListing(Ver(3, 8, 4))}

\* the link texts of a page, trimmed: the names a metadata request can be for
LinkTexts(page) == {Trim(page[i].text) : i \in 1..Len(page)}

\* parse_bin_names returns Ok(names); the selector is a constant that parses
BinNamesResult(page) == Ok(parse_bin_names(page))

\* parse_bin_names on the body of a binaries listing
ParseBinNames ==
    /\ probe = NoProbe
    /\ \E page \in BinListings :
          probe' = Probe("parse_bin_names", [page |-> page], BinNamesResult(page))
    /\ UNCHANGED <<catalogVars, programVars>>

\* Site::fetch_bins: the request for the listing is refused, or the mirror
\* serves a listing and answers the metadata requests for the names of metaOk
FetchBins ==
    /\ probe = NoProbe
    /\ \/ probe' = Probe("fetch_bins", [ok |-> FALSE, page |-> <<>>, metaOk |-> {}],
                         fetch_bins([ok |-> FALSE, page |-> <<>>], {}))
       \/ \E page \in BinListings : \E metaOk \in SUBSET LinkTexts(page) :
             probe' = Probe("fetch_bins", [ok |-> TRUE, page |-> page, metaOk |-> metaOk],
                            fetch_bins([ok |-> TRUE, page |-> page], metaOk))
    /\ UNCHANGED <<catalogVars, programVars>>

\* the versions of a batch: the first k of a catalog
BatchVersions(k) == [i \in 1..k |-> Ver(3, 8, i)]

\* the answers of the mirror to the listing request of each version
BatchAnswers(k) == [1..k -> {"err", "listing", "empty"}]

\* the future of one version: fetch_bins mapped to (ver, bins)
\* (main.rs 441-453)
FetchOne(v, kind) ==
    The({IF r.tag = "Ok" THEN Ok(<<[ver |-> v, bins |-> r.val]>>) ELSE r
         : r \in {fetch_bins(BinResponse(kind, v), LinkTexts(BinListing(v)))}})

\* into_iter().flatten(): the values of the Ok results, in their order
RECURSIVE FlattenOk(_)
FlattenOk(slots) ==
    IF slots = <<>> THEN <<>>
    ELSE (IF Head(slots).tag = "Ok" THEN Head(slots).val ELSE <<>>)
            \o FlattenOk(Tail(slots))

\* collecting with ? instead: the first error ends the batch
CollectAll(slots) ==
    IF \E i \in 1..Len(slots) : slots[i].tag = "Err"
    THEN Err("failed to fetch bins")
    ELSE IF slots = <<>> THEN Err("not found any bins") ELSE Ok(FlattenOk(slots))

\* the end of get_multi_bins: flatten, collect, fail on an empty result
\* (main.rs 455-462)
Collect(slots) ==
    IF FlattenOk(slots) = <<>> THEN Err("not found any bins")
    ELSE Ok(FlattenOk(slots))

\* Manager::get_multi_bins starts: join_all takes one future per version
GetMultiBinsStart ==
    /\ probe = NoProbe
    /\ \E k \in 0..MaxBatch : \E answers \in BatchAnswers(k) :
          probe' = Probe("get_multi_bins",
                         [versions |-> BatchVersions(k), answers |-> answers,
                          slots |-> [i \in 1..k |-> Pending]], Pending)
    /\ UNCHANGED <<catalogVars, programVars>>

\* the future of some version completes, in any order; join_all keeps its
\* output at the position of the version
GetMultiBinsFetch ==
    /\ probe.op = "get_multi_bins" /\ probe.out = Pending
    /\ \E i \in 1..Len(probe.inp.versions) :
          /\ probe.inp.slots[i] = Pending
          /\ probe' = [probe EXCEPT !.inp.slots[i] =
                            FetchOne(probe.inp.versions[i], probe.inp.answers[i])]
    /\ UNCHANGED <<catalogVars, programVars>>

\* all futures are complete: get_multi_bins returns
GetMultiBinsReturn ==
    /\ probe.op = "get_multi_bins" /\ probe.out = Pending
    /\ \A i \in 1..Len(probe.inp.versions) : probe.inp.slots[i] # Pending
    /\ probe' = [probe EXCEPT !.out = Collect(probe.inp.slots)]
    /\ UNCHANGED <<catalogVars, programVars>>

\* the directories of the listing of test_parse_versions, in its order
TestVersions ==
    <<Ver(3, 0, 4), Ver(3, 0, 5), VerPre(3, 1, 0, "alpha-1"), Ver(3, 1, 0),
      Ver(3, 1, 1), Ver(3, 2, 1), Ver(3, 2, 2), Ver(3, 2, 3), Ver(3, 2, 5),
      Ver(3, 3, 1), Ver(3, 3, 3), Ver(3, 3, 9), VerPre(3, 5, 0, "alpha-1"),
      VerPre(3, 5, 0, "beta-1"), Ver(3, 5, 0), Ver(3, 5, 2), Ver(3, 5, 3),
      Ver(3, 5, 4), Ver(3, 6, 0), Ver(3, 6, 1), Ver(3, 6, 2), Ver(3, 6, 3),
      Ver(3, 8, 1), Ver(3, 8, 2), Ver(3, 8, 3), Ver(3, 8, 4)>>

\* the listing of test_parse_versions: the header, the parent directory and
\* one directory row per version
PageTestVersions ==
    <<HeaderRow, ParentRow>>
        \o [i \in 1..Len(TestVersions) |-> DirRow(VersionToString(TestVersions[i]))]

VersionListings == GenPages \cup IndexPages \cup {PageTestVersions}

\* parse_versions on the text of a listing
ParseVersions ==
    /\ probe = NoProbe
    /\ \E page \in VersionListings :
          probe' = Probe("parse_versions", [page |-> page], Ok(parse_versions(page)))
    /\ UNCHANGED <<catalogVars, programVars>>

SiteNext ==
    \/ ParseVersions
    \/ GetMultiBinsStart
    \/ GetMultiBinsFetch
    \/ GetMultiBinsReturn
    \/ ChooseBin
    \/ ParseBinNames
    \/ FetchBins

\* nothing installed, no catalog call under way, no call made yet
InitSite ==
    /\ ProgramStart
    /\ CatalogStart
    /\ javaOk = TRUE
    /\ budget = 0
    /\ callers = {}
    /\ menu = {}
    /\ mirror = {}

vars == <<catalogVars, programVars, siteVars>>

Next == ProgramNext

Spec == Init /\ [][Next]_vars

SpecCatalog ==
    InitCatalog /\ [][CatalogNext]_vars

SpecResolve ==
    InitResolve /\ [][CatalogNext]_vars

SpecSite == InitSite /\ [][SiteNext]_vars

----------------------------------------------------------------------------
(* Properties of update and of Manager::download *)

\* the last command was an update that got as far as comparing the
\* installed version with the target
Compared == last.cmd = "update" /\ last.installed # <<>> /\ last.target # <<>>

\* the last command reached the cache-or-download decision with a file of
\* the chosen artifact's name in the cache directory
FoundInCache == last.dl.reached /\ last.dl.had # {}

SizeAgrees == \A f \in last.dl.had : f.size = last.dl.size

\* C1: an update whose installed version is equal to or greater than the
\* target fails with "same version" or "less version" and calls neither
\* uninstall nor install, leaving the link, the data dir and the cache as
\* they were; an update whose installed version is less than the target
\* calls uninstall, and install once uninstall has succeeded
C1_UpdateOnlyToGreater ==
    Compared =>
        LET installed == last.installed[1]
            target == last.target[1]
        IN  IF VersionLess(installed, target)
            THEN /\ last.uninstall # Pending
                 /\ last.uninstall.tag = "Ok" => last.install # Pending
            ELSE /\ last.res.tag = "Err"
                 /\ last.res.err = IF installed = target THEN "same version"
                                    ELSE "less version"
                 /\ last.uninstall = Pending
                 /\ last.install = Pending
                 /\ last.same

\* an update to an older version was rejected
C1_Witness ==
    /\ Compared
    /\ VersionLess(last.target[1], last.installed[1])
    /\ last.res = Err("less version")
    /\ link.kind = "link"

\* C2: when the cache directory holds a file of the chosen artifact's name
\* whose length is the recorded size, download returns its path, sends no
\* request for the artifact, and leaves the file as it was
C2_CacheHit ==
    (FoundInCache /\ SizeAgrees) =>
        /\ last.dl.res = Ok(<<last.dl.name>>)
        /\ last.dl.gets = 0
        /\ CacheFile(cache, last.dl.name) = last.dl.had

\* an install found the artifact it had downloaded before
C2_Witness ==
    /\ FoundInCache
    /\ SizeAgrees
    /\ last.dl.gets = 0
    /\ last.res.tag = "Ok"

\* C3 as stated: when the file in the cache directory has another length
\* than the recorded size, download fails with a cache mismatch, sends no
\* request and leaves the file as it was
C3_MismatchIsFatal ==
    (FoundInCache /\ ~SizeAgrees) =>
        /\ last.dl.res = Err("cache mismatch")
        /\ last.dl.gets = 0
        /\ CacheFile(cache, last.dl.name) = last.dl.had

\* C3: when the file in the cache directory has another length than the
\* recorded size, download truncates it and requests the artifact again;
\* the file holds what arrived, and download fails only if the transfer does
C3_MismatchDownloadsAgain ==
    (FoundInCache /\ ~SizeAgrees) =>
        /\ last.dl.gets = 1
        /\ last.dl.res.tag = "Ok" <=> last.dl.body \in {"complete", "other"}
        /\ last.dl.res.tag = "Ok" => last.dl.res = Ok(<<last.dl.name>>)
        /\ \E f \in CacheFile(cache, last.dl.name) :
              /\ CacheFile(cache, last.dl.name) = {f}
              /\ last.dl.body = "refused" => f.size = 0
              /\ last.dl.body = "broken" => f.size < last.dl.size
              /\ last.dl.body = "complete" => f.size = last.dl.size /\ f.good

\* a file cut short by a broken transfer was replaced by the whole artifact
C3_Witness ==
    /\ FoundInCache
    /\ ~SizeAgrees
    /\ last.dl.gets = 1
    /\ last.dl.body = "complete"
    /\ \A f \in CacheFile(cache, last.dl.name) : f.size = last.dl.size /\ f.good

----------------------------------------------------------------------------
(* Properties of install and uninstall *)

\* Program::install, run by the last command, returned success
Installed == last.install.tag = "Ok"

\* the version of the distribution that the last command extracted
Extracted == VersionOfArtifact(last.dl.name)

\* C15 as stated: when install has returned success the link exists and
\* points to the mvn that was extracted
C15_SuccessIsLinked ==
    Installed => (link = LinkTo(Extracted) /\ Extracted \in homes)

\* C15, amended: an install that returns success has resolved a version,
\* downloaded its artifact and extracted it, in that order; when nothing
\* existed at the path of the link it has made the link, to the first mvn
\* of the data dir, which is the extracted one when the data dir holds no
\* other version; when a file or a link existed there, which the PATH did
\* not show, it has left it as it was
C15_SuccessLinksWhenFree ==
    [][(last'.n = last.n + 1 /\ last'.install.tag = "Ok") =>
        LET before == IF last'.cmd = "update" THEN NoLink ELSE link
            new == VersionOfArtifact(last'.dl.name)
        IN  /\ last'.target # <<>>
            /\ last'.dl.reached /\ last'.dl.res.tag = "Ok"
            /\ new \in homes'
            /\ link'.kind = "link" => link'.home[1] \in homes'
            /\ before = NoLink =>
                  /\ link'.kind = "link"
                  /\ \A g \in homes' : ~PathBefore(g, link'.home[1])
                  /\ homes' = {new} => link' = LinkTo(new)
            /\ before # NoLink => link' = before]_vars

\* an install made the link to the mvn it extracted
C15_Witness ==
    /\ last.cmd = "install" /\ Installed
    /\ link = LinkTo(Extracted)
    /\ homes = {Extracted}

\* C16: an uninstall that returns success has removed the home of the
\* installed version and the link, and one that returns an error has
\* removed neither
C16_BothOrNeither ==
    [][(last'.n = last.n + 1 /\ last'.cmd = "uninstall") =>
        /\ last'.res.tag = "Ok" =>
              /\ link.kind = "link" /\ link' = NoLink
              /\ homes' = homes \ {link.home[1]}
              /\ link.home[1] \in homes
        /\ last'.res.tag = "Err" => (link' = link /\ homes' = homes)]_vars

\* C20: the version that update resolved and compared with the installed
\* one is the version whose artifact its install step downloads and extracts
C20_InstallsResolved ==
    (last.cmd = "update" /\ last.dl.reached) =>
        /\ VersionOfArtifact(last.dl.name) = last.target[1]
        /\ last.res.tag = "Ok" => link = LinkTo(last.target[1])

\* C21: an update that ends before its uninstall step (mvn not found or
\* not a link or not reporting a version, the version not resolved, or the
\* installed version equal to or greater than the target) leaves the homes
\* of the data dir, the link and the cache as they were; whatever an update
\* changes, it changes after the comparison found the installed version
\* less than the target
C21_RejectedUpdateChangesNothing ==
    [][(last'.n = last.n + 1 /\ last'.cmd = "update") =>
        /\ last'.uninstall = Pending =>
              /\ last'.res.tag = "Err"
              /\ link' = link /\ homes' = homes /\ cache' = cache
        /\ (link' # link \/ homes' # homes \/ cache' # cache) =>
              /\ last'.installed # <<>> /\ last'.target # <<>>
              /\ VersionLess(last'.installed[1], last'.target[1])
        /\ (last'.installed # <<>> /\ last'.target # <<>>
                /\ ~VersionLess(last'.installed[1], last'.target[1])) =>
              last'.uninstall = Pending]_vars

\* an update to an older version was refused with the installation, the
\* link and the cached artifact in place
C21_Witness ==
    /\ last.cmd = "update" /\ last.res = Err("less version")
    /\ last.uninstall = Pending
    /\ link.kind = "link" /\ link.home[1] \in homes
    /\ cache # {}

\* C22 as stated: after an update that returned an error the version that
\* was installed before is still installed and linked
C22_FailedUpdateKeepsInstalled ==
    (last.cmd = "update" /\ last.res.tag = "Err" /\ last.installed # <<>>) =>
        /\ link.kind = "link" /\ link.home[1] \in homes
        /\ ReportedVersion(link.home[1]) = last.installed[1]

\* C22, amended: update is uninstall followed by install, without a way
\* back: an update that fails before its uninstall step leaves the installed
\* version installed and linked; one whose uninstall step fails leaves the
\* link, with or without the home of the installed version; one whose
\* install step fails, after the uninstall step, leaves neither the home of
\* the version that was installed nor the link
C22_FailedUpdateAfterUninstall ==
    [][(last'.n = last.n + 1 /\ last'.cmd = "update" /\ last'.res.tag = "Err") =>
        /\ last'.uninstall = Pending => (link' = link /\ homes' = homes)
        /\ last'.uninstall.tag = "Err" =>
              /\ last'.install = Pending
              /\ link' = link
              /\ homes' = homes \/ homes' = homes \ {link.home[1]}
        /\ last'.uninstall.tag = "Ok" =>
              /\ last'.install = last'.res
              /\ link.kind = "link" /\ link.home[1] \in homes
              /\ link' = NoLink
              /\ homes' = homes \ {link.home[1]}]_vars

\* the install step of an update failed in the download and the version
\* that was installed is gone
C22_Witness ==
    /\ last.cmd = "update" /\ last.res.tag = "Err"
    /\ last.uninstall.tag = "Ok" /\ last.install.tag = "Err"
    /\ last.dl.reached /\ last.dl.res.tag = "Err"
    /\ link = NoLink /\ last.installed # <<>>
    /\ \A h \in homes : ReportedVersion(h) # last.installed[1]

----------------------------------------------------------------------------
(* Properties of the version catalog *)

Elems(s) == {s[i] : i \in 1..Len(s)}

Count(v, s) == Cardinality({i \in 1..Len(s) : s[i] = v})

Finished(t) == pc[t] = "done"

\* the task's call got a catalog from versions()
GotCatalog(t) == Finished(t) /\ vres[t].tag = "Ok"

FixtureCatalog == <<Ver(3, 8, 4), Ver(3, 8, 3), Ver(3, 8, 1), Ver(3, 6, 3)>>

\* C4 as stated: after the first Ok return of versions() no further request
\* is issued and every later Ok return is that same sequence.
C4_OnceAfterFirstOk ==
    firstOk.set => (requests = firstOk.reqs /\ lastOk.val = firstOk.val)

\* C4, amended: after the first non-empty Ok return of versions() the cache
\* never changes, no further request is issued and every later Ok return is
\* that same sequence (an empty Ok return leaves the catalog unpopulated).
C4_OnceAfterPopulated ==
    populated.set =>
        /\ requests = populated.reqs
        /\ versions = populated.val
        /\ lastOk.val = populated.val

\* a later call returned the cached catalog without fetching
C4_Witness ==
    \E t \in Tasks :
        /\ GotCatalog(t) /\ fetched[t].tag = "Pending"
        /\ populated.set /\ started[t] >= 2

\* C5 as stated: when the tasks make their first calls on an empty cache,
\* at most one request is issued and all callers get the same sequence.
C5_SingleRequest ==
    (raced /\ \A t \in Tasks : started[t] <= 1) =>
        /\ requests <= 1
        /\ \A t1, t2 \in Tasks :
            GotCatalog(t1) /\ GotCatalog(t2) => vres[t1].val = vres[t2].val

\* C5, amended: the fetches are serialized by the mutex, so at most one
\* request is in flight at a time and only while the cache is empty; every
\* request but one follows a fetch that failed or found no version; and all
\* callers that get a non-empty sequence get the same one.
C5_SerializedFetch ==
    /\ Cardinality({t \in Tasks : pc[t] = "fetch"}) <= 1
    /\ (\E t \in Tasks : pc[t] = "fetch") => versions = <<>>
    /\ requests <= wasted + 1
    /\ \A t1, t2 \in Tasks :
        (GotCatalog(t1) /\ GotCatalog(t2) /\ vres[t1].val # <<>> /\ vres[t2].val # <<>>)
            => vres[t1].val = vres[t2].val

\* two first calls raced on the empty cache: one fetched, the other got the
\* populated cache, with one request in all
C5_Witness ==
    \E t1, t2 \in Tasks :
        /\ raced /\ t1 # t2 /\ started[t1] = 1 /\ started[t2] = 1
        /\ GotCatalog(t1) /\ fetched[t1].tag = "Ok" /\ vres[t1].val # <<>>
        /\ GotCatalog(t2) /\ fetched[t2].tag = "Pending"
        /\ requests = 1

\* C6 as stated: versions() never returns an empty sequence as success.
C6_NeverEmptyOk ==
    \A t \in Tasks : GotCatalog(t) => vres[t].val # <<>>

\* C6, amended: versions() fails only when the request fails; an index that
\* parses to zero versions is returned as Ok with an empty sequence, on which
\* latest_version fails with an error of empty message and match_version
\* with "not matched version".
C6_EmptyIsOk ==
    \A t \in Tasks :
        Finished(t) /\ fetched[t].tag # "Pending" =>
            /\ vres[t].tag = fetched[t].tag
            /\ fetched[t].tag = "Ok" => Len(vres[t].val) = Len(fetched[t].val)
            /\ vres[t] = Ok(<<>>) =>
                CASE call[t].kind = "versions" -> result[t] = Ok(<<>>)
                  [] call[t].kind = "latest_version" -> result[t] = Err("")
                  [] call[t].kind = "match_version" ->
                        result[t] = Err("not matched version")

\* latest_version saw a successfully returned empty catalog
C6_Witness ==
    \E t \in Tasks :
        /\ Finished(t) /\ call[t].kind = "latest_version"
        /\ fetched[t] = Ok(<<>>) /\ vres[t] = Ok(<<>>) /\ result[t] = Err("")

\* C7 as stated: every list returned by versions() is strictly descending.
C7_StrictlyDescending ==
    \A t \in Tasks :
        GotCatalog(t) =>
            \A i \in 1..(Len(vres[t].val) - 1) :
                VersionLess(vres[t].val[i + 1], vres[t].val[i])

\* C7, amended: every list returned by versions() is descending, each
\* element greater than or equal to the next, and holds every parsed
\* version as often as the page lists it.
C7_Descending ==
    \A t \in Tasks :
        GotCatalog(t) =>
            /\ \A i \in 1..(Len(vres[t].val) - 1) :
                ~VersionLess(vres[t].val[i], vres[t].val[i + 1])
            /\ fetched[t].tag = "Ok" =>
                \A v \in Elems(fetched[t].val) \cup Elems(vres[t].val) :
                    Count(v, vres[t].val) = Count(v, fetched[t].val)

\* a page in ascending order was returned newest first
C7_Witness ==
    \E t \in Tasks :
        /\ GotCatalog(t) /\ fetched[t].tag = "Ok"
        /\ Len(vres[t].val) >= 2
        /\ VersionLess(fetched[t].val[1], fetched[t].val[2])
        /\ VersionLess(vres[t].val[2], vres[t].val[1])

\* the positions of the catalog that satisfy the pattern
Satisfying(pat, cat) == {i \in 1..Len(cat) : ReqMatches(ParseReq(pat), cat[i])}

\* res is the outcome of scanning cat, newest first, for the pattern
IsMatchOutcome(pat, cat, res) ==
    LET sat == Satisfying(pat, cat) IN
    IF sat = {} THEN res = Err("not matched version")
    ELSE /\ res.tag = "Ok" /\ Len(res.val) = 1
         /\ \E i \in sat : res.val[1] = cat[i] /\ \A j \in sat : i <= j
         /\ \A j \in sat : ~VersionLess(res.val[1], cat[j])

\* C8: match_version returns the first version of the newest-first catalog
\* that satisfies the pattern, which is the greatest one satisfying it, and
\* fails with "not matched version" exactly when none does; on
\* {3.6.3, 3.8.1, 3.8.3, 3.8.4}, ">= 3" gives 3.8.4 and "<= 3.8.3" gives 3.8.3.
C8_FirstIsGreatest ==
    \A t \in Tasks :
        Finished(t) /\ call[t].kind = "match_version" =>
            /\ GotCatalog(t) => IsMatchOutcome(call[t].pat, vres[t].val, result[t])
            /\ result[t] = Err("not matched version") =>
                (GotCatalog(t) /\ Satisfying(call[t].pat, vres[t].val) = {})
            /\ (GotCatalog(t) /\ vres[t].val = FixtureCatalog) =>
                /\ call[t].pat = <<">=", "3">> => result[t] = Ok(<<Ver(3, 8, 4)>>)
                /\ call[t].pat = <<"<=", "3", ".", "8", ".", "3">>
                        => result[t] = Ok(<<Ver(3, 8, 3)>>)

\* "<= 3.8.3" on the four-version catalog gave 3.8.3, not the newest
C8_Witness ==
    \E t \in Tasks :
        /\ Finished(t) /\ call[t].pat = <<"<=", "3", ".", "8", ".", "3">>
        /\ vres[t] = Ok(FixtureCatalog)
        /\ result[t] = Ok(<<Ver(3, 8, 3)>>)

\* C9: the string of a catalog version, given as the pattern, makes
\* match_version return that version.
C9_ExactMatch ==
    \A t \in Tasks :
        (GotCatalog(t) /\ call[t].kind = "match_version") =>
            \A v \in Elems(vres[t].val) :
                call[t].pat = VersionToString(v) => result[t] = Ok(<<v>>)

\* u is in the range of the caret requirement ^v
CaretCompatible(v, u) ==
    /\ ~VersionLess(u, v)
    /\ u.major = v.major
    /\ (v.major = 0 /\ v.minor > 0) => u.minor = v.minor
    /\ (v.major = 0 /\ v.minor = 0) => (u.minor = 0 /\ u.patch = v.patch)
    /\ u.pre = "" \/ (u.minor = v.minor /\ u.patch = v.patch)

\* what match_version does instead: the string of a catalog version v is
\* read as the caret requirement ^v, and the result is the greatest catalog
\* version in its range; that is v itself only when the catalog holds no
\* newer version compatible with v.
C9_CaretMatch ==
    \A t \in Tasks :
        (GotCatalog(t) /\ call[t].kind = "match_version") =>
            \A v \in Elems(vres[t].val) :
                call[t].pat = VersionToString(v) =>
                    /\ result[t].tag = "Ok"
                    /\ LET w == result[t].val[1]
                           newer == {u \in Elems(vres[t].val) :
                                        CaretCompatible(v, u) /\ VersionLess(v, u)}
                       IN  /\ w \in Elems(vres[t].val)
                           /\ CaretCompatible(v, w)
                           /\ \A u \in newer : ~VersionLess(w, u)
                           /\ w = v <=> newer = {}

\* "3.8.3" on a catalog that holds 3.8.3 and 3.8.4 gave 3.8.4
C9_Witness ==
    \E t \in Tasks :
        /\ GotCatalog(t) /\ call[t].kind = "match_version"
        /\ call[t].pat = VersionToString(Ver(3, 8, 3))
        /\ Ver(3, 8, 3) \in Elems(vres[t].val)
        /\ result[t] = Ok(<<Ver(3, 8, 4)>>)

\* the outcomes a call can have if it is decided by the pattern and by what
\* the catalog gives for the served pages alone
CatalogOutcomes(c) ==
    IF c.kind = "match_version" /\ ~IsReqString(c.pat)
    THEN {Err("unexpected character")}
    ELSE {Finish(c, Err("transport"))}
            \cup {Finish(c, Ok(SortVersions(parse_versions(p)))) : p \in mirror}

\* C10 as stated: the outcome of resolving a version, with or without a
\* pattern, depends on the catalog and the pattern only.
C10_CatalogAndPatternOnly ==
    \A t \in Tasks :
        (Finished(t) /\ call[t].kind \in {"latest_version", "match_version"})
            => result[t] \in CatalogOutcomes(call[t])

\* C10, amended: without a pattern the result is the first, greatest element
\* of the catalog; with a pattern it is the match of the parsed pattern on
\* the catalog provided a java executable is found and reports its version;
\* when none is, the call fails before the pattern is parsed and before the
\* catalog is consulted.
C10_ResolveNeedsJava ==
    \A t \in Tasks :
        Finished(t) =>
            /\ call[t].kind = "latest_version" =>
                /\ vres[t].tag # "Pending"
                /\ vres[t].tag = "Err" => result[t] = vres[t]
                /\ vres[t] = Ok(<<>>) => result[t] = Err("")
                /\ (vres[t].tag = "Ok" /\ vres[t].val # <<>>) =>
                    /\ result[t] = Ok(<<vres[t].val[1]>>)
                    /\ \A v \in Elems(vres[t].val) : ~VersionLess(result[t].val[1], v)
            /\ call[t].kind = "match_version" =>
                IF ~javaOk
                THEN result[t] = Err("failed to find java version")
                        /\ vres[t].tag = "Pending"
                ELSE IF ~IsReqString(call[t].pat)
                THEN result[t] = Err("unexpected character") /\ vres[t].tag = "Pending"
                ELSE /\ vres[t].tag # "Pending"
                     /\ vres[t].tag = "Err" => result[t] = vres[t]
                     /\ vres[t].tag = "Ok" =>
                            IsMatchOutcome(call[t].pat, vres[t].val, result[t])

\* a pattern that some version of the served page satisfies was refused
\* because java was not found
C10_Witness ==
    \E t \in Tasks :
        /\ Finished(t) /\ call[t].kind = "match_version" /\ ~javaOk
        /\ IsReqString(call[t].pat)
        /\ \E p \in mirror :
            Satisfying(call[t].pat, SortVersions(parse_versions(p))) # {}
        /\ result[t] = Err("failed to find java version")

\* the versions the directory rows of the served pages are named after
ListedVersions == RowVersions \cup Elems(FixtureCatalog)

\* the versions of ListedVersions that have a directory row on the page
DirectoriesOf(p) ==
    {v \in ListedVersions :
        \E i \in 1..Len(p) : p[i] = DirRow(VersionToString(v))}

\* the call of task t resolved a version
Resolved(t) ==
    /\ Finished(t) /\ call[t].kind \in {"latest_version", "match_version"}
    /\ result[t].tag = "Ok"

\* C17 as stated: no version of the catalog is a pre-release, and neither
\* latest_version nor match_version returns one
C17_NoPreRelease ==
    \A t \in Tasks :
        /\ GotCatalog(t) => \A v \in Elems(vres[t].val) : v.pre = ""
        /\ Resolved(t) => result[t].val[1].pre = ""

\* C17, amended: every version of the catalog has three non-negative
\* components and, possibly, a pre-release tag: the catalog holds the
\* version of every directory row named after a version, a pre-release such
\* as 3.1.0-alpha-1 included, and nothing for a directory like 3.8; so
\* latest_version returns a pre-release when that is the greatest version of
\* the catalog, and match_version only one that the pattern names
C17_PreReleaseKept ==
    \A t \in Tasks :
        /\ GotCatalog(t) =>
            /\ \E p \in mirror : Elems(vres[t].val) = DirectoriesOf(p)
            /\ \A v \in Elems(vres[t].val) :
                  v.major \in Nat /\ v.minor \in Nat /\ v.patch \in Nat
                      /\ v.pre \in PreTok \cup {""}
        /\ (Resolved(t) /\ call[t].kind = "latest_version") =>
              \A v \in Elems(vres[t].val) : ~VersionLess(result[t].val[1], v)
        /\ (Resolved(t) /\ call[t].kind = "match_version"
                /\ result[t].val[1].pre # "") =>
              call[t].pat = VersionToString(result[t].val[1])

\* latest_version returned 3.1.0-alpha-1 from a catalog that holds a release
C17_Witness ==
    \E t \in Tasks :
        /\ Resolved(t) /\ call[t].kind = "latest_version"
        /\ result[t] = Ok(<<VerPre(3, 1, 0, "alpha-1")>>)
        /\ Ver(0, 2, 3) \in Elems(vres[t].val)

----------------------------------------------------------------------------
(* Properties of the functions of a listing *)

\* the call made last was of op
Called(op) == probe.op = op

\* the file name ends with one of the three tar suffixes
HasTarSuffix(bin) ==
    bin.filename[Len(bin.filename)] \in {".tar.gz", ".tar.bz2", ".tar.xz"}

\* the positions of the bins tar can extract
Extractable(bins) == {i \in 1..Len(bins) : HasTarSuffix(bins[i])}

\* the rank of a bin's suffix in the preference order .tar.gz, .tar.bz2, .tar.xz
SuffixRank(bin) ==
    CASE bin.filename[Len(bin.filename)] = ".tar.gz" -> 1
      [] bin.filename[Len(bin.filename)] = ".tar.bz2" -> 2
      [] bin.filename[Len(bin.filename)] = ".tar.xz" -> 3

\* C11 as stated: with tar available choose_bin returns a bin whose suffix
\* is the most preferred of the suffixes present, whatever the order of the
\* list; without tar or without a bin of a tar suffix it fails.
C11_SuffixPriority ==
    Called("choose_bin") =>
        LET bins == probe.inp.bins
            ext == Extractable(bins)
        IN  IF probe.inp.hasTar /\ ext # {}
            THEN /\ probe.out.tag = "Ok"
                 /\ \A i \in ext : SuffixRank(probe.out.val[1]) <= SuffixRank(bins[i])
            ELSE probe.out.tag = "Err"

\* C11: with tar available choose_bin returns the first bin of the list, in
\* the list's order, whose file name ends with any of the tar suffixes; the
\* suffixes have no order among themselves. Without tar or without such a
\* bin it fails with "not found a bin".
C11_FirstInListOrder ==
    Called("choose_bin") =>
        LET bins == probe.inp.bins
            ext == Extractable(bins)
        IN  IF probe.inp.hasTar /\ ext # {}
            THEN \E i \in ext : /\ \A j \in ext : i <= j
                                /\ probe.out = Ok(<<bins[i]>>)
            ELSE probe.out = Err("not found a bin")

\* of a .tar.xz listed before a .tar.gz, the .tar.xz was chosen
C11_Witness ==
    /\ Called("choose_bin") /\ probe.inp.hasTar
    /\ Len(probe.inp.bins) = 2
    /\ probe.inp.bins[1].filename[Len(probe.inp.bins[1].filename)] = ".tar.xz"
    /\ probe.inp.bins[2].filename[Len(probe.inp.bins[2].filename)] = ".tar.gz"
    /\ probe.out = Ok(<<probe.inp.bins[1]>>)

\* the link texts of the rows of a page that carry the generic-file icon,
\* in the order of the page
RECURSIVE ArtifactRows(_)
ArtifactRows(page) ==
    IF page = <<>> THEN <<>>
    ELSE (IF Head(page).alt = "[   ]" THEN <<Head(page).text>> ELSE <<>>)
            \o ArtifactRows(Tail(page))

\* the text without the blanks around it
Unpadded(text) == SelectSeq(text, LAMBDA t : t # " ")

Succeeding == {i \in 1..Len(probe.inp.answers) : probe.inp.answers[i] = "listing"}

\* get_multi_bins has returned
BatchDone == Called("get_multi_bins") /\ probe.out # Pending

\* C13: whatever the order in which the fetches complete, get_multi_bins
\* returns the versions whose fetch succeeded, each with its own bins, in the
\* order of the input; it fails, with "not found any bins", exactly when no
\* fetch succeeded; 5 versions of which 1 fails give 4 results
C13_PartialFailureTolerated ==
    BatchDone =>
        IF Succeeding = {} THEN probe.out = Err("not found any bins")
        ELSE /\ probe.out.tag = "Ok"
             /\ Len(probe.out.val) = Cardinality(Succeeding)
             /\ \A n \in 1..Len(probe.out.val) :
                   \E i \in Succeeding :
                       /\ Cardinality({j \in Succeeding : j <= i}) = n
                       /\ probe.out.val[n].ver = probe.inp.versions[i]
                       /\ Len(probe.out.val[n].bins) = 2
                       /\ \A b \in 1..2 :
                             SubSeq(probe.out.val[n].bins[b].filename, 2, 6)
                                 = VersionToString(probe.inp.versions[i])
             /\ (Len(probe.inp.versions) = 5 /\ Cardinality(Succeeding) = 4)
                    => Len(probe.out.val) = 4

\* of 5 versions the third failed and the other 4 were returned
C13_Witness ==
    /\ BatchDone
    /\ Len(probe.inp.versions) = 5
    /\ Succeeding = {1, 2, 4, 5}
    /\ probe.out.tag = "Ok" /\ Len(probe.out.val) = 4
    /\ probe.out.val[3].ver = probe.inp.versions[4]

\* the rows of a listing that carry the icon of a generic file
FileRows(page) == {i \in 1..Len(page) : page[i].alt = "[   ]"}

\* C14 as stated: parse_bin_names fails on a listing without a generic-file
\* row
C14_ParseFailsOnNoName ==
    (Called("parse_bin_names") /\ FileRows(probe.inp.page) = {})
        => probe.out.tag = "Err"

\* C14: on a listing without a generic-file row parse_bin_names returns the
\* empty list of names, without an error, and fetch_bins fails on it with
\* "not found bin names"; no caller gets a successful empty list of binaries:
\* neither from fetch_bins nor, for any version, from get_multi_bins
C14_EmptyListIsAnError ==
    /\ (Called("parse_bin_names") /\ FileRows(probe.inp.page) = {})
          => probe.out = Ok(<<>>)
    /\ (Called("fetch_bins") /\ probe.inp.ok /\ FileRows(probe.inp.page) = {})
          => probe.out = Err("not found bin names")
    /\ Called("fetch_bins") => (probe.out.tag = "Ok" => probe.out.val # <<>>)
    /\ Called("get_multi_bins") =>
          \A i \in 1..Len(probe.inp.slots) :
              /\ probe.inp.slots[i].tag = "Ok"
                    => probe.inp.slots[i].val[1].bins # <<>>
              /\ (probe.inp.answers[i] = "empty" /\ probe.inp.slots[i] # Pending)
                    => probe.inp.slots[i] = Err("not found bin names")

\* the mirror answered the listing request with a page that has rows, none
\* of a generic file, and fetch_bins failed
C14_Witness ==
    /\ Called("fetch_bins")
    /\ probe.inp.ok
    /\ Len(probe.inp.page) = 2
    /\ \E i \in 1..2 : probe.inp.page[i].alt = "[TXT]"
    /\ FileRows(probe.inp.page) = {}
    /\ probe.out = Err("not found bin names")

\* C19: parse_bin_names returns exactly the trimmed link texts of the rows
\* with the icon of a generic file, in the order of the listing, and nothing
\* for rows with the icon of a text file, of a directory or of the parent
\* directory; the listing with one .tar.gz, one .zip and their sidecars
\* gives those 2 names
C19_ExactlyGenericFileRows ==
    Called("parse_bin_names") =>
        /\ probe.out.tag = "Ok"
        /\ Len(probe.out.val) = Cardinality(FileRows(probe.inp.page))
        /\ \A i \in FileRows(probe.inp.page) :
              probe.out.val[Cardinality({j \in FileRows(probe.inp.page) : j <= i})]
                  = Trim(probe.inp.page[i].text)
        /\ probe.inp.page = BinListing(Ver(3, 8, 4))
              => probe.out.val = <<ArtifactName(Ver(3, 8, 4), ".tar.gz"),
                                   ArtifactName(Ver(3, 8, 4), ".zip")>>

\* the names of the listing of 3.8.4, which has 4 sidecar rows
C19_Witness ==
    /\ Called("parse_bin_names")
    /\ probe.inp.page = BinListing(Ver(3, 8, 4))
    /\ Cardinality({i \in 1..Len(probe.inp.page) : probe.inp.page[i].alt = "[TXT]"}) = 4
    /\ Len(probe.out.val) = 2

\* the rows of a listing with the icon of a directory
DirRows(page) == {i \in 1..Len(page) : page[i].alt = "[DIR]"}

\* the directory rows whose name, without the separator, is a version
VersionRows(page) ==
    {i \in DirRows(page) : IsVersionString(StripSlash(Trim(page[i].text)))}

\* the entries of the result are the versions of the rows R, in their order,
\* each the name of its row without the separator
EntriesOf(R) ==
    /\ probe.out.tag = "Ok"
    /\ Len(probe.out.val) = Cardinality(R)
    /\ \A i \in R :
          VersionToString(probe.out.val[Cardinality({j \in R : j <= i})]) \o <<"/">>
              = probe.inp.page[i].text

\* the result for the listing of test_parse_versions
TestEntries ==
    probe.inp.page = PageTestVersions =>
        /\ Len(probe.out.val) = 26
        /\ VersionToString(probe.out.val[1]) = <<"3", ".", "0", ".", "4">>
        /\ VersionToString(probe.out.val[26]) = <<"3", ".", "8", ".", "4">>

\* C18 as stated: parse_versions returns one entry per directory row
C18_OneEntryPerDirectoryRow ==
    Called("parse_versions") => (EntriesOf(DirRows(probe.inp.page)) /\ TestEntries)

\* C18, amended: parse_versions returns one entry per directory row whose
\* name is a version, in document order, with the trailing separator
\* stripped, and nothing for the parent-directory row, the header row or a
\* directory with another name; the listing with 26 version directories
\* gives 26 entries, the first 3.0.4 and the last 3.8.4
C18_OneEntryPerVersionRow ==
    Called("parse_versions") => (EntriesOf(VersionRows(probe.inp.page)) /\ TestEntries)

\* the 28 rows of the listing of test_parse_versions gave 26 entries
C18_Witness ==
    /\ Called("parse_versions")
    /\ probe.inp.page = PageTestVersions
    /\ Len(probe.inp.page) = 28
    /\ Len(probe.out.val) = 26
    /\ probe.out.val[3] = VerPre(3, 1, 0, "alpha-1")

====
